---- MODULE Spec2Model ----
(***************************************************************************)
(* The delivery lifecycle of the order-management server: agent scoring    *)
(* and assignment with a confirmation deadline                             *)
(* (DeliveryAssignmentService), progress monitoring                        *)
(* (DeliveryMonitoringService), the order workflow's delivery creation     *)
(* (OrderService), completion (POST /api/deliveries/:id/complete) and      *)
(* cash verification (PaymentVerificationService).                         *)
(*                                                                         *)
(* The store (Prisma) is one map per table; every awaited store call is    *)
(* one atomic step and is assumed to succeed.  A handler that reads, then  *)
(* decides, then writes is split at the places where another handler's     *)
(* step can run between its read and its write.  Outbound notification     *)
(* (communicationService.sendMessage) is the environment: each send either *)
(* returns or throws (sendMessage rethrows every transport error, and the  *)
(* message text dereferences relations of the record the caller holds).    *)
(* Time is abstracted: a timer that is armed may fire at any moment, and   *)
(* the delay of an ETA against the scheduled time is a number of minutes   *)
(* drawn from DelayValues.  Scores are exact rationals <<num, den>>.       *)
(***************************************************************************)
EXTENDS Integers, Sequences, FiniteSets, TLC

\* ------------------------------------------------------------------ bounds
NumOrders == 1
NumAgents == 2
MaxDeliveries == 3
MaxSends == 2
MaxSettled == 2
MaxLifecycle == 1
SmallWorkload == 1
MaxWorkloadCount == 12
MaxClock == 17

Orders == 1..NumOrders
Agents == 1..NumAgents

\* ------------------------------------------------------- program constants
DELAY_THRESHOLD == 15
REASSIGNMENT_THRESHOLD == 120
MaxRedeliveryRecords == 2
DefaultAttemptCount == 1
DefaultMaxWorkload == 5
WorkloadDivisor == 10

DeliveryStatus ==
  {"ASSIGNED", "IN_PROGRESS", "COMPLETED", "FAILED", "RESCHEDULED",
   "DELIVERED_UNPAID", "DELIVERED_PAID", "PAYMENT_DISPUTED"}

ActiveStatus == {"ASSIGNED", "IN_PROGRESS"}

\* Delays (minutes of ETA after the scheduled time) the environment can
\* produce: below, at and above each threshold.
DelayValues == {0, DELAY_THRESHOLD + 1, REASSIGNMENT_THRESHOLD + 1}

NoEta == -1
averageSpeed == 30
Positions == {0, 45}
NoCash == -1

\* The order's totalAmount, and the amounts and the hours between completion
\* and remittance that a request can carry.
OrderTotal == 2
Amounts == {0, 1, OrderTotal, 3 * OrderTotal}
Hours == {0, 12, 25}
MaxTotal == 6
MaxIncidents == 1
MaxLost == 2
FRAUD_SCORE_THRESHOLD == <<7, 10>>
NaN == <<0, 0>>

VARIABLES
  deliveries,          \* table Delivery: sequence of records, id = index
  orders,              \* table Order: [Orders -> record]
  agents,              \* table User restricted to role DELIVERY_AGENT
  assignmentTimers,    \* DeliveryAssignmentService.assignmentTimers (keys)
  pendingTimeouts,     \* setTimeout handles that are armed and not yet run
  monitoringIntervals, \* DeliveryMonitoringService.monitoringIntervals (keys)
  liveIntervals,       \* setInterval handles that are still running
  unconfirmed,         \* handleUnconfirmedAssignment calls past their check
  checks,              \* checkDeliveryProgress calls holding their snapshot
  locs,                \* updateLocation calls holding their snapshot
  completing,          \* completion requests between their two writes
  ghost,               \* per delivery: history the claims refer to
  scoring,             \* a computeFinalScore call: its arguments and result
  clock,               \* new Date(): minutes since the scheduled time
  position,            \* the agent's device: km to the delivery location
  overwritten,         \* running intervals whose handle the map lost
  confirmationTimers,  \* OrderConfirmationService.confirmationTimers (keys)
  confirmationTimeouts,\* armed timeouts whose handle that map holds
  lostTimeouts,        \* armed timeouts whose handle that map lost (count)
  orderCalls           \* confirmation handlers between their write and end

vars ==
  <<deliveries, orders, agents, assignmentTimers, pendingTimeouts,
    monitoringIntervals, liveIntervals, unconfirmed, checks, locs,
    completing, ghost, scoring, clock, position, overwritten,
    confirmationTimers, confirmationTimeouts, lostTimeouts, orderCalls>>

\* What the handlers of the store never touch, and what they work on.
confirmationVars ==
  <<confirmationTimers, confirmationTimeouts, lostTimeouts, orderCalls>>

callVars ==
  <<scoring, clock, position, overwritten, confirmationTimers,
    confirmationTimeouts, lostTimeouts, orderCalls>>

storeVars ==
  <<deliveries, orders, agents, assignmentTimers, pendingTimeouts,
    monitoringIntervals, liveIntervals, unconfirmed, checks, locs,
    completing, ghost>>

Ids == 1..Len(deliveries)

\* ---------------------------------------------------------------- helpers
Max(a, b) == IF a >= b THEN a ELSE b
Min(a, b) == IF a <= b THEN a ELSE b

\* Exact rationals as <<numerator, denominator>>, denominator > 0.
RatAdd(a, b) == <<a[1] * b[2] + b[1] * a[2], a[2] * b[2]>>
RatMul(a, b) == <<a[1] * b[1], a[2] * b[2]>>
RatLess(a, b) == a[1] * b[2] < b[1] * a[2]
RatLeq(a, b) == a[1] * b[2] <= b[1] * a[2]
RatEq(a, b) == a[1] * b[2] = b[1] * a[2]

\* A new row of table Delivery with the schema's defaults.
NewDelivery(o, a, attempt) ==
  [orderId |-> o, agentId |-> a, status |-> "ASSIGNED",
   attemptCount |-> attempt, eta |-> NoEta, delayMinutes |-> NoEta,
   delayNotified |-> FALSE, humanIntervention |-> FALSE,
   completed |-> FALSE, cashCollected |-> NoCash, cashRemitted |-> NoCash,
   remittanceHours |-> NoCash, remittanceVerified |-> FALSE,
   fraudScore |-> <<0, 1>>, restrictedUntil |-> FALSE]

\* What the claims need to remember of a delivery: the call that created
\* it (createdBy, and parent: the delivery whose failure started that call,
\* 0 for a request from outside), the candidates of that call and its place
\* among them, what marked it FAILED, whether its deadline callback ran,
\* whether a confirmation completed while it was ASSIGNED with the deadline
\* still armed (confirmedFirst) or while the deadline callback was between
\* its check and its write (raced), the delay notifications sent for it,
\* whether a periodic check that read it IN_PROGRESS with a delay above the
\* reassignment threshold has ended, and whether its agent was under a
\* running restriction when it was created.
NewGhost(by, parent, ranking, rank, restricted) ==
  [createdBy |-> by, parent |-> parent, ranking |-> ranking, rank |-> rank,
   failedBy |-> "none", timerRan |-> FALSE, confirmedFirst |-> FALSE,
   raced |-> FALSE, customerMsgs |-> 0, agentMsgs |-> 0, opsAlerts |-> 0,
   checkedOver |-> FALSE, agentRestricted |-> restricted]

\* --------------------------------------------- DeliveryAssignmentService
\* findAvailableAgents: every user with role DELIVERY_AGENT (the query has
\* no other condition), in the order of the table.
findAvailableAgents == [i \in 1..NumAgents |-> i]

\* agent.deliveries of the findMany include: the agent's deliveries in
\* status ASSIGNED or IN_PROGRESS.
Workload(dels, a) ==
  Cardinality({i \in 1..Len(dels) :
                 dels[i].agentId = a /\ dels[i].status \in ActiveStatus})

\* calculateDistance: the placeholder returns 1 for every agent and order.
calculateDistance == <<1, 1>>

calculateSuccessRate(dels, a) ==
  LET history == {i \in 1..Len(dels) :
                    dels[i].agentId = a
                    /\ dels[i].status \in {"COMPLETED", "FAILED"}}
      successful == {i \in history : dels[i].status = "COMPLETED"}
  IN  IF history = {} THEN <<1, 2>>
      ELSE <<Cardinality(successful), Cardinality(history)>>

\* A computeFinalScore whose workload term is 1 - workload / 10 without the
\* floor at 0.  (Used to see that the range of the score rests on it.)
scoreWithoutFloor(distance, workload, successRate) ==
  RatAdd(RatAdd(RatMul(<<4, 10>>,
                       <<distance[2] - distance[1], distance[2]>>),
                RatMul(<<3, 10>>,
                       <<WorkloadDivisor - workload, WorkloadDivisor>>)),
         RatMul(<<3, 10>>, successRate))

computeFinalScore(distance, workload, successRate) ==
  LET normalizedWorkload ==
        <<Max(0, WorkloadDivisor - workload), WorkloadDivisor>>
  IN  RatAdd(RatAdd(RatMul(<<4, 10>>,
                           <<distance[2] - distance[1], distance[2]>>),
                    RatMul(<<3, 10>>, normalizedWorkload)),
             RatMul(<<3, 10>>, successRate))

calculateAgentScore(dels, a) ==
  [agentId |-> a,
   score |-> computeFinalScore(calculateDistance, Workload(dels, a),
                               calculateSuccessRate(dels, a))]

\* Array.prototype.sort with (a, b) => b.score - a.score: descending and
\* stable, so x goes behind every element whose score is not lower.
RECURSIVE InsertByScore(_, _)
InsertByScore(x, sorted) ==
  IF sorted = <<>> THEN <<x>>
  ELSE IF RatLess(Head(sorted).score, x.score) THEN <<x>> \o sorted
  ELSE <<Head(sorted)>> \o InsertByScore(x, Tail(sorted))

RECURSIVE SortByScore(_)
SortByScore(scores) ==
  IF scores = <<>> THEN <<>>
  ELSE InsertByScore(scores[Len(scores)],
                     SortByScore(SubSeq(scores, 1, Len(scores) - 1)))

\* The candidates of one assignDeliveryAgent call: agent ids, best first.
sortedAgents(dels) ==
  LET available == findAvailableAgents
      scored == SortByScore([i \in 1..Len(available) |->
                               calculateAgentScore(dels, available[i])])
  IN  [i \in 1..Len(scored) |-> scored[i].agentId]

\* The agent is restricted and the end of its restriction is in the future.
Restricted(agent) == agent.isRestricted /\ agent.restrictionRunning

\* setAssignmentTimer: the handle goes into the map and the timeout is armed.
setAssignmentTimer(timers, d) == timers \cup {d}

\* A clearAssignmentTimer that forgets to cancel: the handle stays armed.
\* (Used to see that the properties of a confirmed delivery rest on the
\* cancellation.)
keepAssignmentTimer(timers, d) == timers

\* clearAssignmentTimer: clearTimeout and delete, when the map has the key.
clearAssignmentTimer(timers, d) == timers \ {d}

\* assignDeliveryAgent(o) on the store dels: score, sort, attemptAssignment.
\* attemptAssignment walks the candidates; for each it creates the ASSIGNED
\* record (attemptCount is not given: the schema default), then notifies the
\* agent, then arms the deadline and returns; a throw inside the loop body is
\* caught and the loop goes on with the next candidate, the record staying.
\* k is the number of leading candidates whose notification throws.
AssignFrom(dels, gh, o, by, parent) ==
  \E ranking \in {sortedAgents(dels)} :
    \E k \in 0..Len(ranking) :
      LET n == Min(k + 1, Len(ranking))
          base == Len(dels)
      IN  /\ base + n <= MaxDeliveries
          /\ deliveries' =
               dels \o [i \in 1..n |->
                          NewDelivery(o, ranking[i], DefaultAttemptCount)]
          /\ ghost' =
               gh \o [i \in 1..n |->
                       NewGhost(by, parent, ranking, i,
                                Restricted(agents[ranking[i]]))]
          /\ IF k < Len(ranking)
             THEN /\ assignmentTimers' =
                       setAssignmentTimer(assignmentTimers, base + n)
                  /\ pendingTimeouts' =
                       setAssignmentTimer(pendingTimeouts, base + n)
             ELSE UNCHANGED <<assignmentTimers, pendingTimeouts>>

\* assignDeliveryAgent(orderId) called from outside.
AssignDelivery(o) ==
  /\ AssignFrom(deliveries, ghost, o, "assign", 0)
  /\ UNCHANGED <<orders, agents, monitoringIntervals, liveIntervals,
                 unconfirmed, checks, locs, completing>>
  /\ UNCHANGED callVars

\* The deadline of delivery d expires: handleUnconfirmedAssignment reads the
\* delivery and returns unless its status is ASSIGNED.
TimerFire(d) ==
  /\ d \in pendingTimeouts
  /\ pendingTimeouts' = pendingTimeouts \ {d}
  /\ ghost' = [ghost EXCEPT ![d].timerRan = TRUE]
  /\ unconfirmed' =
       IF deliveries[d].status = "ASSIGNED"
       THEN unconfirmed \cup {<<d, "timeout">>}
       ELSE unconfirmed
  /\ UNCHANGED <<deliveries, orders, agents, assignmentTimers,
                 monitoringIntervals, liveIntervals, checks, locs,
                 completing>>
  /\ UNCHANGED callVars

\* handleAgentConfirmation(d, false): the same handler, called directly.
RejectAssignment(d) ==
  /\ d \in Ids
  /\ deliveries[d].status = "ASSIGNED"
  /\ <<d, "reject">> \notin unconfirmed
  /\ unconfirmed' = unconfirmed \cup {<<d, "reject">>}
  /\ UNCHANGED <<deliveries, orders, agents, assignmentTimers,
                 pendingTimeouts, monitoringIntervals, liveIntervals, checks,
                 locs, completing, ghost>>
  /\ UNCHANGED callVars

\* The rest of handleUnconfirmedAssignment, after its check: the status is
\* written FAILED, the agent is told (a throw ends the handler here), and
\* assignDeliveryAgent runs again for the order.
UnconfirmedWrite(d, src) ==
  /\ <<d, src>> \in unconfirmed
  /\ unconfirmed' = unconfirmed \ {<<d, src>>}
  /\ LET dels == [deliveries EXCEPT ![d].status = "FAILED"]
         gh == [ghost EXCEPT ![d].failedBy = src]
     IN  \/ /\ deliveries' = dels
            /\ ghost' = gh
            /\ UNCHANGED <<assignmentTimers, pendingTimeouts>>
         \/ AssignFrom(dels, gh, deliveries[d].orderId, src, d)
  /\ UNCHANGED <<orders, agents, monitoringIntervals, liveIntervals, checks,
                 locs, completing>>
  /\ UNCHANGED callVars

\* handleAgentConfirmation(d, true): the transaction writes IN_PROGRESS and
\* IN_DELIVERY whatever the status was, then the deadline is cleared; the
\* customer message that follows changes nothing whether it throws or not.
\* (A deadline callback that runs between the commit and the clearing reads
\* IN_PROGRESS and returns, so the two are one step here.)
ConfirmAssignment(d) ==
  /\ d \in Ids
  /\ deliveries' = [deliveries EXCEPT ![d].status = "IN_PROGRESS"]
  /\ orders' = [orders EXCEPT ![deliveries[d].orderId].status = "IN_DELIVERY"]
  /\ assignmentTimers' = clearAssignmentTimer(assignmentTimers, d)
  /\ pendingTimeouts' =
       IF d \in assignmentTimers
       THEN clearAssignmentTimer(pendingTimeouts, d)
       ELSE pendingTimeouts
  /\ ghost' = [ghost EXCEPT
                 ![d].confirmedFirst =
                    @ \/ (deliveries[d].status = "ASSIGNED"
                          /\ d \in pendingTimeouts),
                 ![d].raced = @ \/ <<d, "timeout">> \in unconfirmed]
  /\ UNCHANGED <<agents, monitoringIntervals, liveIntervals, unconfirmed,
                 checks, locs, completing>>
  /\ UNCHANGED callVars

\* -------------------------------------------------------- OrderService
\* assignDeliveryAgent of OrderService: findFirst with role DELIVERY_AGENT.
firstDeliveryAgent == findAvailableAgents[1]

\* startMonitoring: setInterval, and the handle goes into the map.
startMonitoring(intervals, d) == intervals \cup {d}

\* stopMonitoring: clearInterval and delete, when the map has the key.
stopMonitoring(intervals, d) == intervals \ {d}

\* POST /api/deliveries: processDelivery creates the record (status and
\* attemptCount by the schema defaults), sets the order IN_DELIVERY and tells
\* the customer; when that returns, the route starts the monitoring.
ProcessDelivery(o, notified) ==
  /\ Len(deliveries) < MaxDeliveries
  /\ deliveries' =
       Append(deliveries,
              NewDelivery(o, firstDeliveryAgent, DefaultAttemptCount))
  /\ ghost' = Append(ghost, NewGhost("process", 0, <<>>, 0,
                               Restricted(agents[firstDeliveryAgent])))
  /\ orders' = [orders EXCEPT ![o].status = "IN_DELIVERY"]
  /\ IF notified
     THEN /\ monitoringIntervals' =
               startMonitoring(monitoringIntervals, Len(deliveries) + 1)
          /\ liveIntervals' =
               startMonitoring(liveIntervals, Len(deliveries) + 1)
     ELSE UNCHANGED <<monitoringIntervals, liveIntervals>>
  /\ UNCHANGED <<agents, assignmentTimers, pendingTimeouts, unconfirmed,
                 checks, locs, completing>>
  /\ UNCHANGED callVars

\* An order.deliveries that is always empty.  (Used to see that the limit
\* of requestRedelivery rests on the count of the order's deliveries.)
noDeliveries(dels, o) == {}

OrderDeliveries(dels, o) == {i \in 1..Len(dels) : dels[i].orderId = o}

\* requestRedelivery: refused when the order has 2 or more deliveries, else
\* a record with attemptCount = their number + 1 (status by default).
RequestRedelivery(o) ==
  /\ Len(deliveries) < MaxDeliveries
  /\ Cardinality(OrderDeliveries(deliveries, o)) < MaxRedeliveryRecords
  /\ deliveries' =
       Append(deliveries,
              NewDelivery(o, firstDeliveryAgent,
                          Cardinality(OrderDeliveries(deliveries, o)) + 1))
  /\ ghost' = Append(ghost, NewGhost("redelivery", 0, <<>>, 0,
                               Restricted(agents[firstDeliveryAgent])))
  /\ UNCHANGED <<orders, agents, assignmentTimers, pendingTimeouts,
                 monitoringIntervals, liveIntervals, unconfirmed, checks,
                 locs, completing>>
  /\ UNCHANGED callVars

\* ----------------------------------------------- DeliveryMonitoringService
\* calculateDelay against the stored estimatedArrival; without one the check
\* takes the current time, whose distance to the scheduled time is now.
storedDelay(del, now) == IF del.eta = NoEta THEN now ELSE del.eta

Bump(n) == Min(n + 1, MaxSends)

\* handleDelay on the caller's snapshot, which has delayNotified = FALSE:
\* customer message, agent message, the three operations alerts, then the
\* update; a throw ends it with what was sent so far.  failAt names the send
\* that throws ("none": the update is written).  checkEnds: this is a
\* periodic check on a delivery it read IN_PROGRESS with a delay above the
\* reassignment threshold, and the check ends here.
handleDelay(d, delay, failAt, checkEnds) ==
  /\ ghost' =
       [ghost EXCEPT
          ![d].checkedOver = @ \/ checkEnds,
          ![d].customerMsgs = IF failAt = "customer" THEN @ ELSE Bump(@),
          ![d].agentMsgs =
             IF failAt \in {"customer", "agent"} THEN @ ELSE Bump(@),
          ![d].opsAlerts = IF failAt = "none" THEN Bump(@) ELSE @]
  /\ deliveries' =
       IF failAt = "none"
       THEN [deliveries EXCEPT ![d].delayMinutes = delay,
                               ![d].delayNotified = TRUE,
                               ![d].humanIntervention = TRUE]
       ELSE deliveries

SendOutcomes == {"customer", "agent", "ops", "none"}

\* A tick of the interval of delivery d: checkDeliveryProgress reads the
\* delivery; COMPLETED stops the monitoring; otherwise the snapshot and the
\* delay computed from it decide what follows.
CheckRead(d, now) ==
  /\ d \in liveIntervals \cup overwritten
  /\ \A c \in checks : c.id # d
  /\ LET del == deliveries[d]
         delay == storedDelay(del, now)
         next == IF delay > DELAY_THRESHOLD /\ ~del.delayNotified
                 THEN "handleDelay"
                 ELSE IF delay > REASSIGNMENT_THRESHOLD
                         /\ ~del.humanIntervention
                 THEN "reassign"
                 ELSE "done"
     IN  IF del.status = "COMPLETED"
         THEN /\ monitoringIntervals' = stopMonitoring(monitoringIntervals, d)
              /\ liveIntervals' =
                   IF d \in monitoringIntervals
                   THEN stopMonitoring(liveIntervals, d)
                   ELSE liveIntervals
              /\ UNCHANGED <<checks, ghost>>
         ELSE /\ checks' =
                   IF next = "done" THEN checks
                   ELSE checks \cup
                          {[id |-> d, delay |-> delay,
                            humanIntervention |-> del.humanIntervention,
                            status |-> del.status, pc |-> next]}
              /\ ghost' =
                   IF next = "done" /\ del.status = "IN_PROGRESS"
                      /\ delay > REASSIGNMENT_THRESHOLD
                   THEN [ghost EXCEPT ![d].checkedOver = TRUE]
                   ELSE ghost
              /\ UNCHANGED <<monitoringIntervals, liveIntervals>>
  /\ UNCHANGED <<deliveries, orders, agents, assignmentTimers,
                 pendingTimeouts, unconfirmed, locs, completing>>
  /\ UNCHANGED callVars

\* The check's handleDelay; a throw is caught by checkDeliveryProgress and
\* ends the check.  Afterwards the snapshot's humanIntervention decides on
\* the reassignment.
CheckHandleDelay(c, failAt) ==
  /\ c \in checks
  /\ c.pc = "handleDelay"
  /\ handleDelay(c.id, c.delay, failAt,
                 c.status = "IN_PROGRESS" /\ c.delay > REASSIGNMENT_THRESHOLD
                 /\ (failAt # "none" \/ c.humanIntervention))
  /\ LET goOn == failAt = "none" /\ c.delay > REASSIGNMENT_THRESHOLD
                 /\ ~c.humanIntervention
     IN  checks' = IF goOn
                   THEN (checks \ {c}) \cup {[c EXCEPT !.pc = "reassign"]}
                   ELSE checks \ {c}
  /\ UNCHANGED <<orders, agents, assignmentTimers, pendingTimeouts,
                 monitoringIntervals, liveIntervals, unconfirmed, locs,
                 completing>>
  /\ UNCHANGED callVars

\* initiateReassignment: FAILED is written, the agent is told (a throw ends
\* it here), assignDeliveryAgent runs for the order.
CheckReassign(c) ==
  /\ c \in checks
  /\ c.pc = "reassign"
  /\ checks' = checks \ {c}
  /\ LET dels == [deliveries EXCEPT ![c.id].status = "FAILED"]
         gh == [ghost EXCEPT
                  ![c.id].failedBy = "monitor",
                  ![c.id].checkedOver = @ \/ c.status = "IN_PROGRESS"]
      IN  \/ /\ deliveries' = dels
            /\ ghost' = gh
            /\ UNCHANGED <<assignmentTimers, pendingTimeouts>>
         \/ AssignFrom(dels, gh, deliveries[c.id].orderId, "monitor", c.id)
  /\ UNCHANGED <<orders, agents, monitoringIntervals, liveIntervals,
                 unconfirmed, locs, completing>>
  /\ UNCHANGED callVars

\* updateLocation reads the delivery (no condition on its status) ...
LocRead(d) ==
  /\ d \in Ids
  /\ \A l \in locs : l.id # d
  /\ locs' = locs \cup {[id |-> d, delay |-> NoEta,
                         delayNotified |-> deliveries[d].delayNotified,
                         eta |-> deliveries[d].eta,
                         delayMinutes |-> deliveries[d].delayMinutes,
                         pc |-> "write"]}
  /\ UNCHANGED <<deliveries, orders, agents, assignmentTimers,
                 pendingTimeouts, monitoringIntervals, liveIntervals,
                 unconfirmed, checks, completing, ghost>>
  /\ UNCHANGED callVars

\* ... writes the location and the ETA computed from it, whose delay against
\* the scheduled time is delay ...
LocWrite(l, delay) ==
  /\ l \in locs
  /\ l.pc = "write"
  /\ deliveries' = [deliveries EXCEPT ![l.id].eta = delay]
  /\ locs' = IF delay > DELAY_THRESHOLD /\ ~l.delayNotified
             THEN (locs \ {l}) \cup
                    {[l EXCEPT !.pc = "handleDelay", !.delay = delay]}
             ELSE locs \ {l}
  /\ UNCHANGED <<orders, agents, assignmentTimers, pendingTimeouts,
                 monitoringIntervals, liveIntervals, unconfirmed, checks,
                 completing, ghost>>
  /\ UNCHANGED callVars

\* ... and calls handleDelay with its snapshot when the delay is above the
\* threshold.
LocHandleDelay(l, failAt) ==
  /\ l \in locs
  /\ l.pc = "handleDelay"
  /\ handleDelay(l.id, l.delay, failAt, FALSE)
  /\ locs' = locs \ {l}
  /\ UNCHANGED <<orders, agents, assignmentTimers, pendingTimeouts,
                 monitoringIntervals, liveIntervals, unconfirmed, checks,
                 completing>>
  /\ UNCHANGED callVars

\* calculateETA: now plus the travel time at averageSpeed; setHours takes
\* the whole hours of its argument, so the travel time counts in hours.
\* Times are minutes since the delivery's scheduled time.
calculateETA(now, km) == now + 60 * (km \div averageSpeed)

\* calculateDelay of an ETA against the scheduled time.
calculateDelay(eta) == Max(0, eta)

\* Time passes.
PassTime ==
  /\ clock < MaxClock
  /\ clock' = clock + 1
  /\ UNCHANGED <<scoring, position, overwritten>>
  /\ UNCHANGED confirmationVars
  /\ UNCHANGED storeVars

\* DeliveryMonitoringService.startMonitoring as a call of its own: the
\* delivery is found, a new interval is created and its handle is put into the
\* map under the delivery's key.  A handle the map held under that key is
\* replaced without clearInterval, so its interval keeps running.
StartMonitoring(d) ==
  /\ d \in Ids
  /\ overwritten' =
       IF d \in liveIntervals THEN overwritten \cup {d} ELSE overwritten
  /\ monitoringIntervals' = startMonitoring(monitoringIntervals, d)
  /\ liveIntervals' = startMonitoring(liveIntervals, d)
  /\ UNCHANGED <<deliveries, orders, agents, assignmentTimers,
                 pendingTimeouts, unconfirmed, checks, locs, completing,
                 ghost>>
  /\ UNCHANGED <<scoring, clock, position>>
  /\ UNCHANGED confirmationVars

\* DeliveryMonitoringService.stopMonitoring as a call of its own: the interval
\* of the handle in the map is cleared and the key deleted.
StopMonitoring(d) ==
  /\ d \in Ids
  /\ monitoringIntervals' = stopMonitoring(monitoringIntervals, d)
  /\ liveIntervals' =
       IF d \in monitoringIntervals
       THEN stopMonitoring(liveIntervals, d)
       ELSE liveIntervals
  /\ UNCHANGED <<deliveries, orders, agents, assignmentTimers,
                 pendingTimeouts, unconfirmed, checks, locs, completing,
                 ghost>>
  /\ UNCHANGED callVars

\* ------------------------------------- POST /api/deliveries/:id/complete
\* The route writes COMPLETED and the completion time whatever the status
\* was, and stops the monitoring ...
CompleteDelivery(d, cash) ==
  /\ d \in Ids
  /\ \A c \in completing : c.id # d
  /\ deliveries' = [deliveries EXCEPT ![d].status = "COMPLETED",
                                      ![d].completed = TRUE]
  /\ monitoringIntervals' = stopMonitoring(monitoringIntervals, d)
  /\ liveIntervals' =
       IF d \in monitoringIntervals
       THEN stopMonitoring(liveIntervals, d)
       ELSE liveIntervals
  /\ completing' = completing \cup {[id |-> d, cash |-> cash]}
  /\ UNCHANGED <<orders, agents, assignmentTimers, pendingTimeouts,
                 unconfirmed, checks, locs, ghost>>
  /\ UNCHANGED callVars

\* A recordCashCollection that restricts the agent on a discrepancy.  (Used
\* to see that the frame of the reputation fields rests on the writes of
\* the collection.)
collectionRestricts(d, amount, flagged) ==
  /\ deliveries' = [deliveries EXCEPT ![d].cashCollected = amount,
                                      ![d].status = "DELIVERED_UNPAID"]
  /\ agents' = [agents EXCEPT
                  ![deliveries[d].agentId].totalCollections = @ + amount,
                  ![deliveries[d].agentId].isRestricted = TRUE]

\* recordCashCollection: a discrepancy is flagged by e-mail (a throw ends the
\* handler), then the amount and DELIVERED_UNPAID are written and the
\* agent's totalCollections grows by the amount.
recordCashCollection(d, amount, flagged) ==
  /\ agents[deliveries[d].agentId].totalCollections + amount <= MaxTotal
  /\ IF amount # OrderTotal /\ ~flagged
     THEN UNCHANGED <<deliveries, agents>>
     ELSE /\ deliveries' =
               [deliveries EXCEPT ![d].cashCollected = amount,
                                  ![d].status = "DELIVERED_UNPAID"]
          /\ agents' = [agents EXCEPT
                          ![deliveries[d].agentId].totalCollections =
                             @ + amount]

\* ... then records the cash of a cash-on-delivery order when an amount was
\* given (0 is no amount), and otherwise marks the order DELIVERED and PAID.
CompleteFinish(c, flagged) ==
  /\ c \in completing
  /\ completing' = completing \ {c}
  /\ LET o == deliveries[c.id].orderId
     IN  IF orders[o].paymentMethod = "CASH_ON_DELIVERY" /\ c.cash # 0
         THEN /\ recordCashCollection(c.id, c.cash, flagged)
              /\ UNCHANGED orders
         ELSE /\ orders' = [orders EXCEPT ![o].status = "DELIVERED",
                                          ![o].paymentStatus = "PAID"]
              /\ UNCHANGED <<deliveries, agents>>
  /\ UNCHANGED <<assignmentTimers, pendingTimeouts, monitoringIntervals,
                 liveIntervals, unconfirmed, checks, locs, ghost>>
  /\ UNCHANGED callVars

\* ------------------------------------------- PaymentVerificationService
\* x || y of JavaScript for an amount that may be absent: absent and 0 are
\* both falsy.
OrElse(x, y) == IF x = NoCash \/ x = 0 THEN y ELSE x

Abs(x) == IF x < 0 THEN -x ELSE x

\* A Math.min(1, r) that is always 1.  (Used to see that the properties of
\* the score rest on the terms below 1.)
alwaysOne(r) == <<1, 1>>

RatMin1(r) == IF RatLess(<<1, 1>>, r) THEN <<1, 1>> ELSE r

\* calculateFraudScore, for a delivery whose completedTime is set: del is
\* the delivery and agent its agent as verifyRemittance re-read them.
calculateFraudScore(del, agent) ==
  LET amountDiscrepancy ==
        <<Abs(OrElse(del.cashCollected, 0) - OrElse(del.cashRemitted, 0)),
          OrElse(del.cashCollected, 1)>>
      remittanceDelay == RatMin1(<<del.remittanceHours, 24>>)
      rating == IF agent.remittanceRating = NaN
                   \/ agent.remittanceRating[1] = 0
                THEN <<0, 1>> ELSE agent.remittanceRating
      historicalRating == <<rating[2] - rating[1], rating[2]>>
      fraudHistory == RatMin1(<<agent.fraudIncidents, 5>>)
  IN  RatAdd(RatAdd(RatMul(<<3, 10>>, amountDiscrepancy),
                    RatMul(<<2, 10>>, remittanceDelay)),
             RatAdd(RatMul(<<3, 10>>, historicalRating),
                    RatMul(<<2, 10>>, fraudHistory)))

\* Fractions are kept in lowest terms so that equal values are equal states.
RECURSIVE Gcd(_, _)
Gcd(a, b) == IF b = 0 THEN a ELSE Gcd(b, a % b)

Reduce(r) == IF r[1] = 0 THEN <<0, 1>>
             ELSE <<r[1] \div Gcd(r[1], r[2]), r[2] \div Gcd(r[1], r[2])>>

\* updateAgentRating on the agent as verifyRemittance read it:
\* Math.min(1, totalRemittances / totalCollections); a division by 0 gives
\* Infinity (the minimum is 1) or, for 0 / 0, NaN.
updateAgentRating(agent) ==
  IF agent.totalCollections = 0
  THEN IF agent.totalRemittances = 0 THEN NaN ELSE <<1, 1>>
  ELSE Reduce(RatMin1(<<agent.totalRemittances, agent.totalCollections>>))

\* A handleFraudSuspicion that disputes the delivery and leaves the agent
\* as it was.  (Used to see that the properties of a verification rest on
\* the restriction.)
disputeWithoutRestriction(dels, ags, d) ==
  /\ agents' = ags
  /\ deliveries' = [dels EXCEPT ![d].status = "PAYMENT_DISPUTED",
                                ![d].restrictedUntil = TRUE]

\* handleFraudSuspicion: the agent is restricted and its incidents grow by
\* one; the delivery becomes PAYMENT_DISPUTED and carries the end of the
\* restriction, 7 days from now.
handleFraudSuspicion(dels, ags, d) ==
  /\ agents' = [ags EXCEPT ![dels[d].agentId].isRestricted = TRUE,
                           ![dels[d].agentId].fraudIncidents = @ + 1,
                           ![dels[d].agentId].restrictionRunning = TRUE]
  /\ deliveries' = [dels EXCEPT ![d].status = "PAYMENT_DISPUTED",
                                ![d].restrictedUntil = TRUE]

\* verifyRemittance on the store as recordCashRemittance left it.  Whether
\* the store takes a NaN rating or rejects the update is the store's
\* choice; a rejected update ends the handler after the score was written.
verifyRemittance(dels, ags, d) ==
  LET fraudScore == calculateFraudScore(dels[d], ags[dels[d].agentId])
      verified == RatLess(fraudScore, FRAUD_SCORE_THRESHOLD)
      scored == [dels EXCEPT ![d].fraudScore = Reduce(fraudScore),
                             ![d].remittanceVerified = verified]
      rating == updateAgentRating(ags[dels[d].agentId])
  IN  IF ~verified
      THEN handleFraudSuspicion(scored, ags, d)
      ELSE /\ deliveries' = scored
           /\ \/ agents' =
                   [ags EXCEPT ![dels[d].agentId].remittanceRating = rating]
              \/ rating = NaN /\ agents' = ags

\* POST /api/deliveries/:id/remittance: recordCashRemittance flags a
\* discrepancy by e-mail (a throw ends the handler), writes the amount, the
\* time and DELIVERED_PAID, adds the amount to the agent's totalRemittances
\* and verifies; the verification throws on a delivery without completion
\* time, after those writes.  hours: the time since the completion.
RecordRemittance(d, amount, hours, flagged) ==
  /\ d \in Ids
  /\ agents[deliveries[d].agentId].totalRemittances + amount <= MaxTotal
  /\ agents[deliveries[d].agentId].fraudIncidents < MaxIncidents
  /\ LET a == deliveries[d].agentId
         dels == [deliveries EXCEPT ![d].cashRemitted = amount,
                                    ![d].remittanceHours = hours,
                                    ![d].status = "DELIVERED_PAID"]
         ags == [agents EXCEPT ![a].totalRemittances = @ + amount]
     IN  IF amount # deliveries[d].cashCollected /\ ~flagged
         THEN UNCHANGED <<deliveries, agents>>
         ELSE IF ~deliveries[d].completed
         THEN /\ deliveries' = dels
              /\ agents' = ags
         ELSE verifyRemittance(dels, ags, d)
  /\ UNCHANGED <<orders, assignmentTimers, pendingTimeouts,
                 monitoringIntervals, liveIntervals, unconfirmed, checks,
                 locs, completing, ghost>>
  /\ UNCHANGED callVars

\* Time passes beyond the end of the agent's latest restriction; nothing in
\* the store changes (isRestricted is never reset).
RestrictionEnds(a) ==
  /\ agents[a].restrictionRunning
  /\ agents' = [agents EXCEPT ![a].restrictionRunning = FALSE]
  /\ UNCHANGED <<deliveries, orders, assignmentTimers, pendingTimeouts,
                 monitoringIntervals, liveIntervals, unconfirmed, checks,
                 locs, completing, ghost>>
  /\ UNCHANGED callVars

\* ------------------------------------------- OrderConfirmationService
\* The keys of confirmationTimers: orderId holds the follow-up timer and
\* `${orderId}_cancel` the auto-cancellation timer.
TimerKinds == {"followup", "cancel"}

TimerKeys == Orders \X TimerKinds

\* What the handlers of the confirmation service leave alone.
deliveryVars ==
  <<deliveries, agents, assignmentTimers, pendingTimeouts,
    monitoringIntervals, liveIntervals, unconfirmed, checks, locs,
    completing, ghost, scoring, clock, position, overwritten>>

\* setConfirmationTimers: two new timeouts are armed and their handles put
\* into the map under the order's two keys.  A handle the map held under a
\* key is replaced without clearTimeout: when its timeout is still armed it
\* stays armed, and nothing holds its handle any more.
setConfirmationTimers(o) ==
  /\ lostTimeouts' =
       [k \in TimerKeys |->
          IF k[1] = o /\ k \in confirmationTimeouts
          THEN lostTimeouts[k] + 1
          ELSE lostTimeouts[k]]
  /\ confirmationTimers' =
       confirmationTimers \cup {<<o, kind>> : kind \in TimerKinds}
  /\ confirmationTimeouts' =
       confirmationTimeouts \cup {<<o, kind>> : kind \in TimerKinds}

\* clearTimers: for each of the order's two keys the map holds, clearTimeout
\* of that handle and delete of the key.
clearTimers(o) ==
  /\ confirmationTimers' = {k \in confirmationTimers : k[1] # o}
  /\ confirmationTimeouts' = {k \in confirmationTimeouts : k[1] # o}
  /\ UNCHANGED lostTimeouts

\* initiateConfirmation: an order the fraud assessment finds risky is set
\* PENDING for manual review; otherwise the confirmation request is sent
\* and, when the send returned, the two timers are set.
InitiateConfirmation(o, risky, sent) ==
  /\ o \in Orders
  /\ \A k \in TimerKeys :
       k[1] = o /\ k \in confirmationTimeouts => lostTimeouts[k] < MaxLost
  /\ IF risky
     THEN /\ orders' = [orders EXCEPT ![o].status = "PENDING"]
          /\ UNCHANGED confirmationVars
     ELSE IF sent
     THEN /\ setConfirmationTimers(o)
          /\ UNCHANGED <<orders, orderCalls>>
     ELSE UNCHANGED <<orders, confirmationVars>>
  /\ UNCHANGED deliveryVars

\* A timeout of key k runs out: one whose handle the map holds (lost = FALSE)
\* or one whose handle was replaced (lost = TRUE).
TimeoutRuns(k, lost) ==
  IF lost
  THEN /\ lostTimeouts[k] > 0
       /\ lostTimeouts' = [lostTimeouts EXCEPT ![k] = @ - 1]
       /\ UNCHANGED confirmationTimeouts
  ELSE /\ k \in confirmationTimeouts
       /\ confirmationTimeouts' = confirmationTimeouts \ {k}
       /\ UNCHANGED lostTimeouts

\* The 15-minute timer: initiateHumanFollowup writes a support ticket and
\* tells the customer; the order is not touched.
FollowupTimerFire(o, lost) ==
  /\ TimeoutRuns(<<o, "followup">>, lost)
  /\ UNCHANGED <<orders, confirmationTimers, orderCalls>>
  /\ UNCHANGED deliveryVars

\* The 2-hour timer: cancelUnconfirmedOrder writes CANCELLED, whatever the
\* status of the order is, and goes on to notify the customer.
CancelTimerFire(o, lost) ==
  /\ TimeoutRuns(<<o, "cancel">>, lost)
  /\ orders' = [orders EXCEPT ![o].status = "CANCELLED"]
  /\ orderCalls' = orderCalls \cup {[order |-> o, pc |-> "notify"]}
  /\ UNCHANGED confirmationTimers
  /\ UNCHANGED deliveryVars

\* handleOrderConfirmation(orderId, confirmed) up to the end of its write:
\* CONFIRMED when confirmed, and otherwise cancelUnconfirmedOrder's
\* CANCELLED.
HandleOrderConfirmation(o, confirmed) ==
  /\ o \in Orders
  /\ orders' = [orders EXCEPT
                  ![o].status = IF confirmed THEN "CONFIRMED"
                                ELSE "CANCELLED"]
  /\ orderCalls' =
       orderCalls \cup {[order |-> o,
                         pc |-> IF confirmed THEN "clear" ELSE "notify"]}
  /\ UNCHANGED <<confirmationTimers, confirmationTimeouts, lostTimeouts>>
  /\ UNCHANGED deliveryVars

\* The rest of a handler after its write: handleOrderConfirmation clears the
\* timers; cancelUnconfirmedOrder notifies the customer and clears the
\* timers when the send returned.
OrderCallEnds(c, sent) ==
  /\ c \in orderCalls
  /\ orderCalls' = orderCalls \ {c}
  /\ IF c.pc = "clear" \/ sent
     THEN clearTimers(c.order)
     ELSE UNCHANGED <<confirmationTimers, confirmationTimeouts,
                      lostTimeouts>>
  /\ UNCHANGED orders
  /\ UNCHANGED deliveryVars

\* ------------------------------------------------------- specifications
PaymentMethods == {"CASH_ON_DELIVERY", "CREDIT_CARD"}

NewAgent ==
  [isAvailable |-> TRUE, maxWorkload |-> DefaultMaxWorkload,
   totalCollections |-> 0, totalRemittances |-> 0,
   remittanceRating |-> <<1, 1>>, fraudIncidents |-> 0,
   isRestricted |-> FALSE, restrictionRunning |-> FALSE]

\* The store before any delivery exists: orders ready for delivery with a
\* payment method of methods, and one User row of rows per delivery agent.
EmptyStore(methods, rows) ==
  /\ deliveries = <<>>
  /\ ghost = <<>>
  /\ orders \in [Orders -> {[status |-> "READY_FOR_DELIVERY",
                             paymentStatus |-> "PENDING",
                             paymentMethod |-> m] : m \in methods}]
  /\ agents \in [Agents -> rows]
  /\ assignmentTimers = {}
  /\ pendingTimeouts = {}
  /\ monitoringIntervals = {}
  /\ liveIntervals = {}
  /\ unconfirmed = {}
  /\ checks = {}
  /\ locs = {}
  /\ completing = {}

\* new OrderConfirmationService(): no timer, no handler under way.
NoConfirmation ==
  /\ confirmationTimers = {}
  /\ confirmationTimeouts = {}
  /\ lostTimeouts = [k \in TimerKeys |-> 0]
  /\ orderCalls = {}

\* No computeFinalScore call of its own is under way.
NoCall == [distance |-> <<0, 1>>, workload |-> 0, successRate |-> <<0, 1>>,
           score |-> <<0, 1>>, done |-> TRUE]

InitStore(methods, rows) ==
  /\ EmptyStore(methods, rows)
  /\ scoring = NoCall
  /\ clock = 0
  /\ position = 0
  /\ overwritten = {}
  /\ NoConfirmation

InitWith(methods) == InitStore(methods, {NewAgent})

Init == InitWith(PaymentMethods)

\* The payment method is read by the completion route alone.
InitCash == InitWith({"CASH_ON_DELIVERY"})

Assignment ==
  \/ \E o \in Orders : AssignDelivery(o)
  \/ \E d \in Ids : TimerFire(d)
  \/ \E d \in Ids : RejectAssignment(d)
  \/ \E d \in Ids, src \in {"timeout", "reject"} : UnconfirmedWrite(d, src)
  \/ \E d \in Ids : ConfirmAssignment(d)

Workflow ==
  \/ \E o \in Orders, notified \in BOOLEAN : ProcessDelivery(o, notified)
  \/ \E o \in Orders : RequestRedelivery(o)

Monitoring ==
  \/ \E d \in Ids, now \in DelayValues : CheckRead(d, now)
  \/ \E c \in checks, failAt \in SendOutcomes : CheckHandleDelay(c, failAt)
  \/ \E c \in checks : CheckReassign(c)
  \/ \E d \in Ids : LocRead(d)
  \/ \E l \in locs, delay \in DelayValues : LocWrite(l, delay)
  \/ \E l \in locs, failAt \in SendOutcomes : LocHandleDelay(l, failAt)

Completion ==
  \/ \E d \in Ids, cash \in Amounts : CompleteDelivery(d, cash)
  \/ \E c \in completing, flagged \in BOOLEAN : CompleteFinish(c, flagged)

Payment ==
  \/ \E d \in Ids, amount \in Amounts, hours \in Hours, flagged \in BOOLEAN :
       RecordRemittance(d, amount, hours, flagged)
  \/ \E a \in Agents : RestrictionEnds(a)

Next == Assignment \/ Workflow \/ Monitoring \/ Completion \/ Payment

Spec == Init /\ [][Next]_vars

\* Assignment, confirmation and the order workflow's own delivery records.
NextAssign ==
  \/ Assignment
  \/ \E o \in Orders : ProcessDelivery(o, TRUE)
  \/ \E o \in Orders : RequestRedelivery(o)

SpecAssign == InitCash /\ [][NextAssign]_vars

\* A monitored delivery: created by the workflow (one request in a run),
\* confirmed, tracked by periodic checks and location updates, which may
\* reassign the order.  Confirmations and location updates arrive for the
\* monitored delivery.
Monitored == {d \in Ids : ghost[d].createdBy = "process"}

NextMonitor ==
  \/ \E o \in Orders, notified \in BOOLEAN :
       deliveries = <<>> /\ ProcessDelivery(o, notified)
  \/ \E d \in Monitored : ConfirmAssignment(d)
  \/ \E d \in Monitored, now \in DelayValues : CheckRead(d, now)
  \/ \E c \in checks, failAt \in SendOutcomes : CheckHandleDelay(c, failAt)
  \/ \E c \in checks : CheckReassign(c)
  \/ \E d \in Monitored : LocRead(d)
  \/ \E l \in locs, delay \in DelayValues : LocWrite(l, delay)
  \/ \E l \in locs, failAt \in SendOutcomes : LocHandleDelay(l, failAt)

SpecMonitor == InitCash /\ [][NextMonitor]_vars

Within(n) == Len(deliveries') <= n

\* The assignment service for runs with at most n delivery records: a
\* request or an escalation that would create more does not happen.
AssignmentWithin(n) ==
  \/ \E o \in Orders : AssignDelivery(o) /\ Within(n)
  \/ \E d \in Ids : TimerFire(d)
  \/ \E d \in Ids : RejectAssignment(d)
  \/ \E d \in Ids, src \in {"timeout", "reject"} :
       UnconfirmedWrite(d, src) /\ Within(n)
  \/ \E d \in Ids : ConfirmAssignment(d)

\* Assignment alone: requests, deadlines, rejections and confirmations.
NextConfirm == AssignmentWithin(MaxSettled)

SpecConfirm == InitCash /\ [][NextConfirm]_vars

\* The monitored delivery, completed through the route with no cash amount
\* while checks and location updates go on.
NextComplete ==
  \/ NextMonitor
  \/ \E d \in Monitored : CompleteDelivery(d, 0)
  \/ \E c \in completing : CompleteFinish(c, TRUE)

SpecComplete == InitCash /\ [][NextComplete]_vars

\* The one delivery of a run, created by the workflow, whose agent collects
\* the order's total and remits any amount at any time, each discrepancy
\* alert delivered or not.
NextVerify ==
  \/ \E o \in Orders : deliveries = <<>> /\ ProcessDelivery(o, TRUE)
  \/ \E d \in Ids : CompleteDelivery(d, OrderTotal)
  \/ \E c \in completing : CompleteFinish(c, TRUE)
  \/ \E d \in Ids, amount \in Amounts, hours \in Hours, flagged \in BOOLEAN :
       RecordRemittance(d, amount, hours, flagged)

SpecVerify == InitCash /\ [][NextVerify]_vars

\* Assignment over User rows as an administrator can have left them:
\* available or not, with the default maxWorkload or a small one.
AgentRows ==
  {[NewAgent EXCEPT !.isAvailable = available, !.maxWorkload = workload] :
     available \in BOOLEAN, workload \in {SmallWorkload, DefaultMaxWorkload}}

InitEligible == InitStore({"CASH_ON_DELIVERY"}, AgentRows)

SpecEligible == InitEligible /\ [][NextConfirm]_vars

\* Assignment, completion and remittance without monitoring, for runs with
\* one delivery record (a reassignment ends where it would create the next
\* one), completed with no cash amount or with the order's total, whose
\* agent remits the total, or nothing, late.
NextLifecycle ==
  \/ AssignmentWithin(MaxLifecycle)
  \/ \E o \in Orders : ProcessDelivery(o, TRUE) /\ Within(MaxLifecycle)
  \/ \E d \in Ids, cash \in {0, OrderTotal} : CompleteDelivery(d, cash)
  \/ \E c \in completing : CompleteFinish(c, TRUE)
  \/ \E d \in Ids, amount \in {0, OrderTotal} :
       RecordRemittance(d, amount, 25, TRUE)

SpecLifecycle == Init /\ [][NextLifecycle]_vars

\* Assignment requests around completion and remittance, for runs that
\* create at most MaxSettled delivery records of cash-on-delivery orders,
\* whose agents collect the order's total and remit it, or nothing, late.
NextRestrict ==
  \/ \E o \in Orders : AssignDelivery(o) /\ Within(MaxSettled)
  \/ \E d \in Ids : CompleteDelivery(d, OrderTotal)
  \/ \E c \in completing : CompleteFinish(c, TRUE)
  \/ \E d \in Ids, amount \in {0, OrderTotal} :
       RecordRemittance(d, amount, 25, TRUE)
  \/ \E a \in Agents : RestrictionEnds(a)

SpecRestrict == InitCash /\ [][NextRestrict]_vars

\* The one delivery of a run, created by the workflow, completed with any
\* cash amount and remitted with any amount at any time, each discrepancy
\* alert delivered or not.
NextCollect ==
  \/ \E o \in Orders : deliveries = <<>> /\ ProcessDelivery(o, TRUE)
  \/ \E d \in Ids, cash \in Amounts : CompleteDelivery(d, cash)
  \/ \E c \in completing, flagged \in BOOLEAN : CompleteFinish(c, flagged)
  \/ \E d \in Ids, amount \in Amounts, hours \in Hours, flagged \in BOOLEAN :
       RecordRemittance(d, amount, hours, flagged)

SpecCollect == InitCash /\ [][NextCollect]_vars

\* Redelivery requests among the other creations of delivery records (the
\* workflow's and the assignment's).
NextRedeliver ==
  \/ \E o \in Orders : RequestRedelivery(o)
  \/ \E o \in Orders, notified \in BOOLEAN : ProcessDelivery(o, notified)
  \/ \E o \in Orders : AssignDelivery(o)

SpecRedeliver == Init /\ [][NextRedeliver]_vars

\* computeFinalScore on its own: a call with a normalised distance, a
\* workload count and a success rate, which then returns (the score in
\* lowest terms).
Fractions == {<<0, 1>>, <<1, 4>>, <<1, 2>>, <<1, 1>>}

ScoreCalls ==
  [distance : Fractions, workload : 0..MaxWorkloadCount,
   successRate : Fractions, score : {<<0, 1>>}, done : {FALSE}]

ComputeFinalScore ==
  /\ ~scoring.done
  /\ scoring' =
       [scoring EXCEPT !.score = Reduce(computeFinalScore(scoring.distance,
                                                          scoring.workload,
                                                          scoring.successRate)),
                       !.done = TRUE]
  /\ UNCHANGED <<clock, position, overwritten>>
  /\ UNCHANGED confirmationVars
  /\ UNCHANGED storeVars

InitScore ==
  /\ EmptyStore({"CASH_ON_DELIVERY"}, {NewAgent})
  /\ scoring \in ScoreCalls
  /\ clock = 0
  /\ position = 0
  /\ overwritten = {}
  /\ NoConfirmation

NextScore == ComputeFinalScore

SpecScore == InitScore /\ [][NextScore]_vars

\* Location updates of the one delivery of a run by an agent that stays
\* where it is, while time passes and no periodic check runs.
InitLocate ==
  /\ EmptyStore({"CASH_ON_DELIVERY"}, {NewAgent})
  /\ scoring = NoCall
  /\ clock = 0
  /\ position \in Positions
  /\ overwritten = {}
  /\ NoConfirmation

NextLocate ==
  \/ \E o \in Orders : deliveries = <<>> /\ ProcessDelivery(o, TRUE)
  \/ \E d \in Ids : LocRead(d)
  \/ \E l \in locs : LocWrite(l, calculateETA(clock, position))
  \/ \E l \in locs, failAt \in SendOutcomes : LocHandleDelay(l, failAt)
  \/ PassTime

SpecLocate == InitLocate /\ [][NextLocate]_vars

\* Every operation on the one record of a run: a request creates it
\* (assignDeliveryAgent with its first candidate notified, processDelivery
\* or requestRedelivery), an escalation ends where it would create another
\* one, the delay seen by a trigger is the largest, every message is
\* delivered, and the agent collects the order's total and remits nothing,
\* late.
SameRecords == Len(deliveries') = Len(deliveries)

NextFrame ==
  \/ \E o \in Orders :
       deliveries = <<>> /\ AssignDelivery(o) /\ Len(deliveries') = 1
  \/ \E o \in Orders : deliveries = <<>> /\ ProcessDelivery(o, TRUE)
  \/ \E o \in Orders : deliveries = <<>> /\ RequestRedelivery(o)
  \/ \E d \in Ids : TimerFire(d)
  \/ \E d \in Ids : RejectAssignment(d)
  \/ \E d \in Ids, src \in {"timeout", "reject"} :
       UnconfirmedWrite(d, src) /\ SameRecords
  \/ \E d \in Ids : ConfirmAssignment(d)
  \/ \E d \in Ids : CheckRead(d, REASSIGNMENT_THRESHOLD + 1)
  \/ \E c \in checks : CheckHandleDelay(c, "none")
  \/ \E c \in checks : CheckReassign(c) /\ SameRecords
  \/ \E d \in Ids : LocRead(d)
  \/ \E l \in locs : LocWrite(l, DELAY_THRESHOLD + 1)
  \/ \E l \in locs : LocHandleDelay(l, "none")
  \/ \E d \in Ids : CompleteDelivery(d, OrderTotal)
  \/ \E c \in completing : CompleteFinish(c, TRUE)
  \/ \E d \in Ids : RecordRemittance(d, 0, 25, TRUE)

SpecFrame == InitCash /\ [][NextFrame]_vars

\* The monitoring service called directly: monitoring of the one delivery of
\* a run is started and stopped any number of times while its checks run.
NextHandles ==
  \/ \E o \in Orders, notified \in BOOLEAN :
       deliveries = <<>> /\ ProcessDelivery(o, notified)
  \/ \E d \in Ids : StartMonitoring(d)
  \/ \E d \in Ids : StopMonitoring(d)
  \/ \E d \in Ids : ConfirmAssignment(d)
  \/ \E d \in Ids, now \in {0, DELAY_THRESHOLD + 1} : CheckRead(d, now)
  \/ \E c \in checks, failAt \in SendOutcomes : CheckHandleDelay(c, failAt)
  \/ \E d \in Ids : CompleteDelivery(d, 0)
  \/ \E c \in completing : CompleteFinish(c, TRUE)

SpecHandles == InitCash /\ [][NextHandles]_vars

\* Orders waiting for the customer's confirmation: confirmation is asked for
\* an order that is neither confirmed nor cancelled, any number of times, and
\* the customer's answer and the timers arrive in any order.
InitOrders ==
  /\ deliveries = <<>>
  /\ ghost = <<>>
  /\ orders = [o \in Orders |-> [status |-> "PENDING",
                                  paymentStatus |-> "PENDING",
                                  paymentMethod |-> "CASH_ON_DELIVERY"]]
  /\ agents = [a \in Agents |-> NewAgent]
  /\ assignmentTimers = {}
  /\ pendingTimeouts = {}
  /\ monitoringIntervals = {}
  /\ liveIntervals = {}
  /\ unconfirmed = {}
  /\ checks = {}
  /\ locs = {}
  /\ completing = {}
  /\ scoring = NoCall
  /\ clock = 0
  /\ position = 0
  /\ overwritten = {}
  /\ NoConfirmation

NextOrders ==
  \/ \E o \in Orders, risky \in BOOLEAN, sent \in BOOLEAN :
       /\ orders[o].status \notin {"CONFIRMED", "CANCELLED"}
       /\ InitiateConfirmation(o, risky, sent)
  \/ \E o \in Orders, lost \in BOOLEAN : FollowupTimerFire(o, lost)
  \/ \E o \in Orders, lost \in BOOLEAN : CancelTimerFire(o, lost)
  \/ \E o \in Orders, confirmed \in BOOLEAN :
       HandleOrderConfirmation(o, confirmed)
  \/ \E c \in orderCalls, sent \in BOOLEAN : OrderCallEnds(c, sent)

SpecOrders == InitOrders /\ [][NextOrders]_vars

\* ------------------------------------------------------------ properties
ActiveOf(o) ==
  {d \in Ids : deliveries[d].orderId = o
               /\ deliveries[d].status \in ActiveStatus}

\* C1: for every order, in every reachable state, at most one delivery of
\* the order has status ASSIGNED or IN_PROGRESS.
C1_AtMostOneActive == \A o \in Orders : Cardinality(ActiveOf(o)) <= 1

\* The status graph: ASSIGNED -> IN_PROGRESS -> {COMPLETED | FAILED}, the
\* deadline's and the rejection's ASSIGNED -> FAILED, and the payment
\* statuses after COMPLETED.
StatusGraph ==
  {<<"ASSIGNED", "IN_PROGRESS">>, <<"ASSIGNED", "FAILED">>,
   <<"IN_PROGRESS", "COMPLETED">>, <<"IN_PROGRESS", "FAILED">>,
   <<"COMPLETED", "DELIVERED_UNPAID">>, <<"COMPLETED", "DELIVERED_PAID">>,
   <<"COMPLETED", "PAYMENT_DISPUTED">>,
   <<"DELIVERED_UNPAID", "DELIVERED_PAID">>,
   <<"DELIVERED_UNPAID", "PAYMENT_DISPUTED">>,
   <<"DELIVERED_PAID", "PAYMENT_DISPUTED">>}

FollowsGraph ==
  \A d \in Ids :
     \/ deliveries'[d].status = deliveries[d].status
     \/ <<deliveries[d].status, deliveries'[d].status>> \in StatusGraph

\* C2: every change of a delivery's status, by any operation, follows the
\* status graph; in particular never ASSIGNED -> COMPLETED directly and
\* never FAILED -> IN_PROGRESS.
C2_StatusFollowsGraph == [][FollowsGraph]_vars

\* The deliveries that the deadline of delivery d created.
TimeoutChildren(d) ==
  {e \in Ids : ghost[e].createdBy = "timeout" /\ ghost[e].parent = d}

\* C3: a delivery whose confirmation completed while it was ASSIGNED and
\* its deadline had not fired is never marked FAILED by the deadline, its
\* deadline callback never runs, and the deadline creates no delivery.
C3_ConfirmedDeadlineNeverActs ==
  \A d \in Ids :
     ghost[d].confirmedFirst =>
       /\ ~ghost[d].timerRan
       /\ ghost[d].failedBy # "timeout"
       /\ TimeoutChildren(d) = {}
       /\ d \notin pendingTimeouts

\* C3, its case: a delivery with an armed deadline was confirmed and is in
\* progress, its deadline cancelled.
C3_Witness ==
  \E d \in Ids :
     /\ ghost[d].confirmedFirst
     /\ ghost[d].createdBy = "assign"
     /\ deliveries[d].status = "IN_PROGRESS"
     /\ d \notin assignmentTimers

C5_DelayNotifiedOnce ==
  \A d \in Ids :
     /\ ghost[d].customerMsgs <= 1
     /\ ghost[d].agentMsgs <= 1
     /\ ghost[d].opsAlerts <= 1

\* C6: once a periodic check that read a delivery IN_PROGRESS with a delay
\* above the reassignment threshold has ended, the delivery was marked
\* FAILED by the monitor and a later delivery of the same order has
\* attemptCount one higher and another agent.
C6_ExcessiveDelayReassigns ==
  \A d \in Ids :
     ghost[d].checkedOver =>
       /\ ghost[d].failedBy = "monitor"
       /\ \E e \in Ids :
            /\ e > d
            /\ deliveries[e].orderId = deliveries[d].orderId
            /\ deliveries[e].attemptCount = deliveries[d].attemptCount + 1
            /\ deliveries[e].agentId # deliveries[d].agentId

Ordinal(d) ==
  Cardinality({e \in 1..d : deliveries[e].orderId = deliveries[d].orderId})

\* C8: attemptCount is the ordinal of the delivery within its order.
C8_AttemptCountIsOrdinal ==
  \A d \in Ids : deliveries[d].attemptCount = Ordinal(d)

\* The number of deliveries on the escalation chain that ends in d: d, the
\* delivery whose deadline created d, and so on.
RECURSIVE ChainLen(_)
ChainLen(d) ==
  IF ghost[d].createdBy = "timeout" THEN 1 + ChainLen(ghost[d].parent)
  ELSE 1

C10_RestrictedNeverAssigned ==
  \A d \in Ids :
     ghost[d].createdBy \in {"assign", "timeout", "reject", "monitor"} =>
       ~ghost[d].agentRestricted

\* The deliveries that assignDeliveryAgent created, called from outside
\* or by an escalation.
Assigned ==
  {d \in Ids : ghost[d].createdBy \in {"assign", "timeout", "reject", "monitor"}}

\* C11: every agent that assignDeliveryAgent gave a delivery to is
\* available, and no agent holds more ASSIGNED or IN_PROGRESS deliveries
\* than its maxWorkload.
C11_OnlyEligibleAgents ==
  /\ \A d \in Assigned : agents[deliveries[d].agentId].isAvailable
  /\ \A a \in Agents : Workload(deliveries, a) <= agents[a].maxWorkload

\* C12: while no agent is eligible (here: none is available) a request to
\* assign leaves the store as it was: no delivery record, no deadline armed,
\* the order's status untouched.
C12_NoEligibleAgentNoChange ==
  (\A a \in Agents : ~agents[a].isAvailable) =>
    /\ deliveries = <<>>
    /\ assignmentTimers = {}
    /\ pendingTimeouts = {}
    /\ \A o \in Orders : orders[o].status = "READY_FOR_DELIVERY"

\* A step in which a confirmation moves delivery d from ASSIGNED to
\* IN_PROGRESS (no other operation makes that change).
Confirms(d) ==
  deliveries[d].status = "ASSIGNED" /\ deliveries'[d].status = "IN_PROGRESS"

\* C13: a confirmation that moves a delivery from ASSIGNED to IN_PROGRESS
\* removes its confirmation timer and leaves a periodic check armed for it.
C13_ConfirmStartsMonitor ==
  [][\A d \in Ids :
       Confirms(d) => d \notin assignmentTimers' /\ d \in liveIntervals']_vars

\* C14: a confirmation of a delivery that is not ASSIGNED changes neither
\* the delivery's status nor the order's: a delivery enters IN_PROGRESS from
\* ASSIGNED alone, and where no delivery is created an order enters
\* IN_DELIVERY only with a delivery of its own leaving ASSIGNED.
C14_ConfirmNeedsAssigned ==
  [][/\ \A d \in Ids :
          deliveries'[d].status = "IN_PROGRESS" =>
            deliveries[d].status \in {"ASSIGNED", "IN_PROGRESS"}
     /\ \A o \in Orders :
          (/\ Len(deliveries') = Len(deliveries)
           /\ orders[o].status # "IN_DELIVERY"
           /\ orders'[o].status = "IN_DELIVERY")
          => \E d \in Ids : deliveries[d].orderId = o /\ Confirms(d)]_vars

\* C15: a delivery in status COMPLETED or FAILED has no timer armed:
\* neither its confirmation deadline nor its periodic check.
C15_TerminalHasNoTimer ==
  \A d \in Ids :
     deliveries[d].status \in {"COMPLETED", "FAILED"} =>
       d \notin pendingTimeouts /\ d \notin liveIntervals

\* C16: a periodic check in flight for a delivery that has become
\* COMPLETED changes nothing of any delivery when it goes on: the status is
\* not overwritten, no delay field is written, no delivery is created.
C16_InFlightCheckDiscarded ==
  [][\A c \in checks \ checks' :
       deliveries[c.id].status = "COMPLETED" => deliveries' = deliveries]_vars

\* C17: no delivery has a periodic check and a location update both
\* between their read and the end of their writes.
C17_TickAndUpdateExclusive ==
  \A d \in Ids : ~(\E c \in checks, l \in locs : c.id = d /\ l.id = d)

\* A step of a periodic check or of a location update for delivery d, after
\* its read.
MonitorActsOn(d) ==
  \E c \in (checks \ checks') \cup (locs \ locs') : c.id = d

\* C18: a step of a check or of a location update for a delivery that is
\* not IN_PROGRESS writes no delivery, sends nothing and reassigns nothing,
\* and a periodic check is armed for IN_PROGRESS deliveries alone.
C18_MonitorOnlyInProgress ==
  [][/\ \A d \in Ids :
          MonitorActsOn(d) /\ deliveries[d].status # "IN_PROGRESS" =>
            deliveries' = deliveries /\ ghost'[d] = ghost[d]
     /\ \A d \in liveIntervals' :
          deliveries'[d].status = "IN_PROGRESS"]_vars

TerminalStatus ==
  {"COMPLETED", "FAILED", "DELIVERED_UNPAID", "DELIVERED_PAID"}

\* C19: no step takes a delivery in a terminal status back to ASSIGNED or
\* IN_PROGRESS, or writes its estimated arrival, delayMinutes,
\* delayNotified or humanIntervention.
C19_TerminalImmutable ==
  [][\A d \in Ids :
       deliveries[d].status \in TerminalStatus =>
         /\ deliveries'[d].status \notin ActiveStatus
         /\ deliveries'[d].eta = deliveries[d].eta
         /\ deliveries'[d].delayMinutes = deliveries[d].delayMinutes
         /\ deliveries'[d].delayNotified = deliveries[d].delayNotified
         /\ deliveries'[d].humanIntervention =
              deliveries[d].humanIntervention]_vars

\* A step in which a remittance for delivery d reaches its verification and
\* the verification ends: the delivery has a completion time, and the
\* discrepancy alert, where one is due, was delivered.
Verifies(d) ==
  /\ deliveries[d].completed
  /\ \E amount \in Amounts, hours \in Hours, flagged \in BOOLEAN :
       /\ amount = deliveries[d].cashCollected \/ flagged
       /\ RecordRemittance(d, amount, hours, flagged)

\* C20: after the verification of a remittance, with the score it stored:
\* at 0.7 or above the agent is restricted with a running restriction, its
\* fraudIncidents is one higher, the delivery is PAYMENT_DISPUTED and not
\* verified; below 0.7 the delivery is verified and DELIVERED_PAID and the
\* agent's isRestricted and fraudIncidents are as before.
C20_VerificationOutcome ==
  [][\A d \in Ids :
       Verifies(d) =>
         LET a == deliveries[d].agentId
         IN  IF RatLeq(FRAUD_SCORE_THRESHOLD, deliveries'[d].fraudScore)
             THEN /\ agents'[a].isRestricted
                  /\ agents'[a].restrictionRunning
                  /\ deliveries'[d].restrictedUntil
                  /\ agents'[a].fraudIncidents = agents[a].fraudIncidents + 1
                  /\ deliveries'[d].status = "PAYMENT_DISPUTED"
                  /\ ~deliveries'[d].remittanceVerified
             ELSE /\ deliveries'[d].remittanceVerified
                  /\ deliveries'[d].status = "DELIVERED_PAID"
                  /\ agents'[a].isRestricted = agents[a].isRestricted
                  /\ agents'[a].fraudIncidents = agents[a].fraudIncidents]_vars

\* C20, its cases: a delivery disputed at or above the threshold, its
\* agent restricted with one incident, after an earlier verification below
\* the threshold had lowered the agent's rating.
C20_Witness ==
  \E d \in Ids :
     /\ deliveries[d].status = "PAYMENT_DISPUTED"
     /\ ~deliveries[d].remittanceVerified
     /\ RatLeq(FRAUD_SCORE_THRESHOLD, deliveries[d].fraudScore)
     /\ agents[deliveries[d].agentId].isRestricted
     /\ agents[deliveries[d].agentId].fraudIncidents = 1
     /\ RatLess(agents[deliveries[d].agentId].remittanceRating, <<1, 1>>)

\* C21: a delivery whose remittance was verified, or disputed by the
\* verification, has both its collected and its remitted amount recorded.
C21_VerifiedHasBothAmounts ==
  \A d \in Ids :
     (deliveries[d].remittanceVerified
        \/ deliveries[d].status = "PAYMENT_DISPUTED")
     => /\ deliveries[d].cashCollected # NoCash
        /\ deliveries[d].cashRemitted # NoCash

\* The fraud score of the specification over exact fractions: discrepancy is
\* |collected - remitted| / collected and delay min(1, hours / 24), or 1
\* where there is no completion time.
ScoreFormula(discrepancy, delay, rating, incidents) ==
  RatAdd(RatAdd(RatMul(<<3, 10>>, discrepancy), RatMul(<<2, 10>>, delay)),
         RatAdd(RatMul(<<3, 10>>, <<rating[2] - rating[1], rating[2]>>),
                RatMul(<<2, 10>>, RatMin1(<<incidents, 5>>))))

\* A step in which a remittance of the amount for delivery d, hours after
\* its completion, gets past its discrepancy alert.
Remits(d, amount, hours) ==
  \E flagged \in BOOLEAN :
     /\ amount = deliveries[d].cashCollected \/ flagged
     /\ RecordRemittance(d, amount, hours, flagged)

\* C22: a remittance stores the score 0.3 * discrepancy + 0.2 * delay
\* + 0.3 * (1 - rating) + 0.2 * min(1, incidents / 5) and is verified exactly
\* when the score is below 0.7; on a delivery without completion time the
\* delay term is 1, so the stored score is at least 0.2; collected 100,
\* remitted 40, 3 days late, rating 0.5 and 2 incidents score 0.61.
C22_ScoreFollowsFormula ==
  [][/\ RatEq(ScoreFormula(<<100 - 40, 100>>, RatMin1(<<72, 24>>),
                           <<1, 2>>, 2), <<61, 100>>)
     /\ \A d \in Ids, amount \in Amounts, hours \in Hours :
          Remits(d, amount, hours) =>
            LET agent == agents[deliveries[d].agentId]
                collected == deliveries[d].cashCollected
                score == deliveries'[d].fraudScore
            IN  /\ deliveries'[d].remittanceVerified
                     = RatLess(score, FRAUD_SCORE_THRESHOLD)
                /\ collected > 0 /\ agent.remittanceRating # NaN
                   => RatEq(score,
                            ScoreFormula(<<Abs(collected - amount), collected>>,
                                         RatMin1(<<hours, 24>>),
                                         agent.remittanceRating,
                                         agent.fraudIncidents))
                /\ ~deliveries[d].completed
                   => RatLeq(<<2, 10>>, score)]_vars

\* A step that verifies a remittance of exactly the collected amount, within
\* the day of the completion, for an agent with rating 1 and no incident.
SameDayInFull(d, amount, hours) ==
  /\ Remits(d, amount, hours)
  /\ deliveries[d].completed
  /\ deliveries[d].cashCollected > 0
  /\ amount = deliveries[d].cashCollected
  /\ hours < 24
  /\ agents[deliveries[d].agentId].remittanceRating = <<1, 1>>
  /\ agents[deliveries[d].agentId].fraudIncidents = 0

\* C23, as stated: a full remittance within 24 hours, rating 1, no incident,
\* stores the score 0, is verified and leaves the agent unrestricted.
C23_SameDayScoreZero ==
  [][\A d \in Ids, amount \in Amounts, hours \in Hours :
       SameDayInFull(d, amount, hours) =>
         /\ deliveries'[d].fraudScore = <<0, 1>>
         /\ deliveries'[d].remittanceVerified
         /\ ~agents'[deliveries[d].agentId].isRestricted]_vars

\* C23: a full remittance within 24 hours, rating 1, no incident, stores
\* the score 0.2 * hours / 24, which is below 0.2 (and 0 only at the
\* completion time itself), is verified and leaves the agent unrestricted.
C23_SameDayScoreIsDelayShare ==
  [][\A d \in Ids, amount \in Amounts, hours \in Hours :
       SameDayInFull(d, amount, hours) =>
         /\ RatEq(deliveries'[d].fraudScore, <<2 * hours, 10 * 24>>)
         /\ RatLess(deliveries'[d].fraudScore, <<2, 10>>)
         /\ deliveries'[d].remittanceVerified
         /\ ~agents'[deliveries[d].agentId].isRestricted]_vars

\* C23, its case: a verified delivery remitted in full 12 hours after its
\* completion, with the score 0.1.
C23_Witness ==
  \E d \in Ids :
     /\ deliveries[d].remittanceVerified
     /\ deliveries[d].cashCollected = OrderTotal
     /\ deliveries[d].cashRemitted = OrderTotal
     /\ deliveries[d].remittanceHours = 12
     /\ deliveries[d].fraudScore = <<1, 10>>
     /\ ~agents[deliveries[d].agentId].isRestricted

\* C24: every stored fraud score lies between 0 and 1.
C24_ScoreInUnitInterval ==
  \A d \in Ids :
     /\ RatLeq(<<0, 1>>, deliveries[d].fraudScore)
     /\ RatLeq(deliveries[d].fraudScore, <<1, 1>>)

\* C25: a remittance whose verification passes leaves the agent's rating at
\* min(1, totalRemittances / totalCollections) of the totals that include
\* it, and leaves the rating as it was when totalCollections is 0.
C25_RatingFromTotals ==
  [][\A d \in Ids :
       Verifies(d) /\ deliveries'[d].remittanceVerified =>
         LET before == agents[deliveries[d].agentId]
             after == agents'[deliveries[d].agentId]
         IN  after.remittanceRating =
               IF after.totalCollections = 0
               THEN before.remittanceRating
               ELSE Reduce(RatMin1(<<after.totalRemittances,
                                     after.totalCollections>>))]_vars

\* C26: the completion of a cash-on-delivery order with a cash amount
\* records that amount as cashCollected and sets DELIVERED_UNPAID, whether
\* or not the amount is the order's total.
C26_CollectionAlwaysRecorded ==
  [][\A c \in completing :
       /\ \E flagged \in BOOLEAN : CompleteFinish(c, flagged)
       /\ orders[deliveries[c.id].orderId].paymentMethod = "CASH_ON_DELIVERY"
       /\ c.cash # 0
       => /\ deliveries'[c.id].cashCollected = c.cash
          /\ deliveries'[c.id].status = "DELIVERED_UNPAID"]_vars

\* C27: a collection or a remittance whose discrepancy alert fails leaves
\* the store as the same operation does when the alert is delivered.
C27_AlertFailureChangesNothing ==
  [][/\ \A c \in completing :
          CompleteFinish(c, FALSE) => CompleteFinish(c, TRUE)
     /\ \A d \in Ids, amount \in Amounts, hours \in Hours :
          RecordRemittance(d, amount, hours, FALSE)
          => RecordRemittance(d, amount, hours, TRUE)]_vars

\* The number of delivery records of order o.
RecordsOf(o) == Cardinality({d \in Ids : deliveries[d].orderId = o})

FinalScore(distance, workload, successRate) ==
  Reduce(computeFinalScore(distance, workload, successRate))

\* C29: the score of a computeFinalScore call lies between 0 and 1, no
\* larger distance and no larger workload gives a higher score, and no
\* larger success rate gives a lower one.
C29_FitnessMonotoneInRange ==
  scoring.done =>
    /\ RatLeq(<<0, 1>>, scoring.score)
    /\ RatLeq(scoring.score, <<1, 1>>)
    /\ \A distance \in Fractions :
          RatLeq(scoring.distance, distance)
          => RatLeq(FinalScore(distance, scoring.workload,
                                      scoring.successRate),
                    scoring.score)
    /\ \A workload \in 0..MaxWorkloadCount :
          scoring.workload <= workload
          => RatLeq(FinalScore(scoring.distance, workload,
                                      scoring.successRate),
                    scoring.score)
    /\ \A successRate \in Fractions :
          RatLeq(scoring.successRate, successRate)
          => RatLeq(scoring.score,
                    FinalScore(scoring.distance, scoring.workload,
                                      successRate))

\* C29, its cases: a call that returned 0 for the largest distance, a
\* workload beyond 10 and the success rate 0, and scores strictly higher
\* for a smaller workload.
C29_Witness ==
  /\ scoring.done
  /\ scoring.distance = <<1, 1>>
  /\ scoring.workload > WorkloadDivisor
  /\ scoring.successRate = <<0, 1>>
  /\ RatEq(scoring.score, <<0, 1>>)
  /\ RatLess(scoring.score,
             FinalScore(scoring.distance, 0, scoring.successRate))

\* C30: a delivery that assignDeliveryAgent created for a candidate below
\* the top of its ranked list exists only when the deliveries of every
\* candidate above it have failed by deadline or rejection.
C30_LowerRankOnlyAfterFailure ==
  \A d \in Assigned :
     \A i \in 1..(ghost[d].rank - 1) :
        /\ ghost[d - i].ranking = ghost[d].ranking
        /\ ghost[d - i].rank = ghost[d].rank - i
        /\ ghost[d - i].failedBy \in {"timeout", "reject"}

\* C31: an updateLocation call that began after an earlier call had stored
\* an ETA for the same coordinates, with no periodic check in between, ends
\* with the estimatedArrival and the delayMinutes it found.
C31_SameCoordinatesSameEta ==
  [][\A l \in locs :
       l.eta # NoEta /\ l \notin locs'
       /\ (\A k \in locs' : k.id # l.id)
       => /\ deliveries'[l.id].eta = l.eta
          /\ deliveries'[l.id].delayMinutes = l.delayMinutes]_vars

\* The reputation fields of an agent record.
Reputation(agent) ==
  <<agent.remittanceRating, agent.fraudIncidents, agent.isRestricted>>

\* C32: a step that changes an agent's remittanceRating, fraudIncidents or
\* isRestricted is the verification of a remittance for one of the agent's
\* deliveries.
C32_ReputationFrame ==
  [][\A a \in Agents :
       Reputation(agents'[a]) # Reputation(agents[a])
       => \E d \in Ids : deliveries[d].agentId = a /\ Verifies(d)]_vars

\* C32, its cases: an agent restricted by a verification, with a rating
\* that an earlier verification lowered, whose delivery was also confirmed,
\* tracked by a location update, notified as delayed and completed.
C32_Witness ==
  \E d \in Ids :
     /\ agents[deliveries[d].agentId].isRestricted
     /\ agents[deliveries[d].agentId].fraudIncidents = 1
     /\ RatLess(agents[deliveries[d].agentId].remittanceRating, <<1, 1>>)
     /\ deliveries[d].status = "PAYMENT_DISPUTED"
     /\ deliveries[d].eta # NoEta
     /\ deliveries[d].delayNotified
     /\ deliveries[d].cashCollected = OrderTotal

\* A step that ends a monitor trigger on delivery d: the last step of an
\* updateLocation call or of a periodic check.
TriggerEnds(d) ==
  \/ /\ \E l \in locs : l.id = d
     /\ \A l \in locs' : l.id # d
  \/ /\ \E c \in checks : c.id = d
     /\ \A c \in checks' : c.id # d
  \/ /\ \E now \in DelayValues : CheckRead(d, now)
     /\ checks' = checks

\* C33: when a monitor trigger ends on a delivery that is IN_PROGRESS and
\* has an ETA, the stored delayMinutes is max(0, minutes from the scheduled
\* time to the ETA).
C33_DelayMinutesFollowsEta ==
  [][\A d \in Ids :
       /\ deliveries[d].status = "IN_PROGRESS"
       /\ deliveries'[d].status = "IN_PROGRESS"
       /\ deliveries'[d].eta # NoEta
       /\ TriggerEnds(d)
       => deliveries'[d].delayMinutes = calculateDelay(deliveries'[d].eta)]_vars

\* The deliveries of agent a that were completed, whatever the cash
\* recording made of their status afterwards, and those that failed.
CompletedBy(a) ==
  {d \in Ids :
     /\ deliveries[d].agentId = a
     /\ \/ deliveries[d].status = "COMPLETED"
        \/ /\ deliveries[d].completed
           /\ deliveries[d].status \in
                {"DELIVERED_UNPAID", "DELIVERED_PAID", "PAYMENT_DISPUTED"}}

FailedBy(a) ==
  {d \in Ids : deliveries[d].agentId = a /\ deliveries[d].status = "FAILED"}

\* C34: the success rate that scoring takes for an agent is completed /
\* (completed + failed), and 1/2 for an agent with neither, a completed
\* delivery counting as completed after its cash was recorded.
C34_SuccessRateCountsCompleted ==
  \A a \in Agents :
     RatEq(calculateSuccessRate(deliveries, a),
           IF CompletedBy(a) \cup FailedBy(a) = {}
           THEN <<1, 2>>
           ELSE <<Cardinality(CompletedBy(a)),
                  Cardinality(CompletedBy(a) \cup FailedBy(a))>>)

\* C35: a call of assignDeliveryAgent creates at most one delivery record,
\* and every ASSIGNED record it leaves has its confirmation deadline armed.
C35_OneRecordPerCall ==
  [][\A o \in Orders :
       AssignDelivery(o) =>
         /\ Len(deliveries') <= Len(deliveries) + 1
         /\ \A d \in (Len(deliveries) + 1)..Len(deliveries') :
              deliveries'[d].status = "ASSIGNED"
              => d \in pendingTimeouts' /\ d \in assignmentTimers']_vars

\* C36: every delivery in status ASSIGNED has its confirmation deadline
\* armed, or the callback of that deadline is running for it.
C36_AssignedHasDeadline ==
  \A d \in Ids :
     deliveries[d].status = "ASSIGNED"
     => \/ d \in pendingTimeouts
        \/ <<d, "timeout">> \in unconfirmed

\* C37: when stopMonitoring(d) has returned, no interval of delivery d is
\* running any more, whatever startMonitoring calls came before; so no
\* periodic check of d starts afterwards.
C37_StopEndsEveryInterval ==
  [][\A d \in Ids :
       StopMonitoring(d) => d \notin liveIntervals' \cup overwritten']_vars

\* C38: the second step of a completion request never turns the payment
\* status of a cash-on-delivery order into PAID, whatever cashCollected the
\* request carried (absent, 0 or positive).
C38_CashOrderNotPaidByCompletion ==
  [][\A c \in completing, flagged \in BOOLEAN :
       LET o == deliveries[c.id].orderId
       IN  (/\ CompleteFinish(c, flagged)
            /\ orders[o].paymentMethod = "CASH_ON_DELIVERY"
            /\ orders[o].paymentStatus # "PAID")
           => orders'[o].paymentStatus # "PAID"]_vars

\* The sum of an amount field (cashCollected or cashRemitted, absent counted
\* as 0) over the first n deliveries that belong to agent a.
RECURSIVE CashSum(_, _, _)
CashSum(a, field, n) ==
  IF n = 0 THEN 0
  ELSE CashSum(a, field, n - 1)
       + (IF deliveries[n].agentId = a
          THEN OrElse(deliveries[n][field], 0)
          ELSE 0)

\* C39: in every reachable state an agent's totalCollections is the sum of
\* cashCollected over the agent's deliveries and its totalRemittances the sum
\* of cashRemitted over them.
C39_TotalsAreSums ==
  \A a \in Agents :
     /\ agents[a].totalCollections
          = CashSum(a, "cashCollected", Len(deliveries))
     /\ agents[a].totalRemittances
          = CashSum(a, "cashRemitted", Len(deliveries))

\* C40: an order that handleOrderConfirmation(orderId, true) has set
\* CONFIRMED is never set CANCELLED by the callback of an auto-cancellation
\* timer, in any interleaving and after any number of initiateConfirmation
\* calls.
C40_ConfirmedNotCancelledByTimer ==
  [][\A o \in Orders, lost \in BOOLEAN :
       orders[o].status = "CONFIRMED" => ~CancelTimerFire(o, lost)]_vars

\* The same for a confirmation that has returned (its timers are cleared):
\* this leaves the timers whose handle a second initiateConfirmation
\* replaced.
C40_ConfirmedAndClearedNotCancelled ==
  [][\A o \in Orders, lost \in BOOLEAN :
       (/\ orders[o].status = "CONFIRMED"
        /\ \A c \in orderCalls : c.order # o)
       => ~CancelTimerFire(o, lost)]_vars

\* The same when initiateConfirmation ran once only: this leaves the timer
\* that fires between the CONFIRMED write and clearTimers.
C40_ConfirmedNotCancelledByHeldTimer ==
  [][\A o \in Orders :
       orders[o].status = "CONFIRMED" => ~CancelTimerFire(o, FALSE)]_vars

====
